---- MODULE Spec2Model ----
(***************************************************************************)
(* Model of the serial framing decoders and the sample window of           *)
(*   src/Python_works/plotter_nodemcu2.py  (byte-popping decoder, "N")     *)
(*   src/Python_works/plottter_stm.py      (find-based decoder,   "S")     *)
(* Both scripts read the same wire format                                  *)
(*   sync 0xAA | length | payload[length] | XOR checksum                   *)
(* and are driven here by the same byte stream and the same pause button.  *)
(* Python indices are 0-based; At and Slice translate them.                *)
(***************************************************************************)
EXTENDS Integers, Sequences, FiniteSets, TLC

\* ------------------------------------------------------------------ bounds
\* The longest byte stream read from the serial port in one behaviour.
MaxStream == 8
\* The longest chunk of arbitrary bytes one ser.read returns.
MaxChunk == 2
\* The number of update calls in one behaviour.
MaxCalls == 6
\* The longest byte stream of a behaviour that steps through the loops.
LoopStream == 6
\* The number of update calls of such a behaviour.
LoopCalls == 2
\* The longest byte stream of a behaviour that floods the port.
FloodStream == 300
\* The number of update calls of such a behaviour.
FloodCalls == 8
\* The longest payload handed to verify_checksum on its own.
MaxCsLen == 3
\* The number of samples pushed into a window on its own; longest records
\* the longest payload one extend call was handed.
MaxPushed == 6
\* The window capacity (200 in both scripts), scaled down.
max_points == 4

\* ------------------------------------------------------------- byte values
SYNC == 170

\* The bytes arbitrary chunks are made of: the sync byte, two values that
\* serve as lengths, payload samples, checksums and noise.
Bytes == {0, 1, SYNC}

Min(a, b) == IF a < b THEN a ELSE b

\* Python buffer[k]
At(s, k) == s[k + 1]

\* Python s[a:b], clamped to the sequence as Python clamps a slice
Slice(s, a, b) == SubSeq(s, a + 1, Min(b, Len(s)))

\* Python s[a:]
SliceFrom(s, a) == SubSeq(s, a + 1, Len(s))

\* ---------------------------------------------------------------- checksum
RECURSIVE Xor_Or(_, _)
\* Mutant of Xor: cs |= b, a bitwise or in place of the exclusive or
Xor_Or(a, b) ==
    IF a = 0 THEN b
    ELSE IF b = 0 THEN a
    ELSE (IF (a % 2) + (b % 2) > 0 THEN 1 ELSE 0) + (2 * Xor_Or(a \div 2, b \div 2))

RECURSIVE Xor(_, _)
\* a ^ b on non-negative integers
Xor(a, b) ==
    IF a = 0 THEN b
    ELSE IF b = 0 THEN a
    ELSE (((a % 2) + (b % 2)) % 2) + (2 * Xor(a \div 2, b \div 2))

RECURSIVE XorFold(_, _)
\* the loop  for b in data: cs ^= b   started with cs
XorFold(cs, data) ==
    IF data = <<>> THEN cs
    ELSE XorFold(Xor(cs, Head(data)), Tail(data))

\* verify_checksum(data, checksum)
verify_checksum(data, checksum) == XorFold(0, data) = checksum

\* ------------------------------------------------------------------ window
\* deque([0]*max_points, maxlen=max_points)
Zeros == [i \in 1..max_points |-> 0]

\* Mutant of Append1: a full window refuses the new sample instead of
\* evicting the oldest
Append1_DropsNewest(y, x) ==
    IF Len(y) >= max_points THEN y ELSE Append(y, x)

\* deque.append on a deque with maxlen = max_points
Append1(y, x) ==
    IF max_points = 0 THEN <<>>
    ELSE IF Len(y) >= max_points THEN Append(Tail(y), x)
    ELSE Append(y, x)

RECURSIVE Extend(_, _)
\* deque.extend(data): append the items one by one, left to right
Extend(y, data) ==
    IF data = <<>> THEN y
    ELSE Extend(Append1(y, Head(data)), Tail(data))

\* ------------------------------------------------------------------ events
\* y_data.extend(data) of an accepted frame, seen as an event
PayloadEvent(data) == [kind |-> "payload", bytes |-> data]

\* print("Checksum failed:", list(packet))
FailEvent(packet) == [kind |-> "checksum_failed", bytes |-> packet]

\* except Exception as e: print("Error:", e)
ErrorEvent == [kind |-> "error", bytes |-> <<>>]

\* The state one decode loop works on.
Dec(b, y, ev) == [buffer |-> b, y_data |-> y, events |-> ev]

\* Mutant of Deliver: the whole frame is pushed, not its payload field
Deliver_PushesFrame(st, data, checksum, packet, rest) ==
    IF XorFold(0, data) = checksum
    THEN Dec(rest, Extend(st.y_data, packet), Append(st.events, PayloadEvent(data)))
    ELSE Dec(rest, st.y_data, Append(st.events, FailEvent(packet)))

\* Mutant of Deliver: the payload of a rejected frame is pushed as well
Deliver_PushesRejected(st, data, checksum, packet, rest) ==
    IF XorFold(0, data) = checksum
    THEN Dec(rest, Extend(st.y_data, data), Append(st.events, PayloadEvent(data)))
    ELSE Dec(rest, Extend(st.y_data, data), Append(st.events, FailEvent(packet)))

\* if verify_checksum(data, checksum): y_data.extend(data)
\* else: print("Checksum failed:", list(packet))
\* and the buffer the iteration leaves
Deliver(st, data, checksum, packet, rest) ==
    IF verify_checksum(data, checksum)
    THEN Dec(rest, Extend(st.y_data, data), Append(st.events, PayloadEvent(data)))
    ELSE Dec(rest, st.y_data, Append(st.events, FailEvent(packet)))

\* ------------------------------------------- plotter_nodemcu2.py: the loop
\* Mutant of TooShortN: a frame is taken to hold at least 4 bytes
TooShortN_Four(b) == Len(b) < 4

\* len(buffer) < 3
TooShortN(b) == Len(b) < 3

\* Mutant of NotSyncN: the sync test is missing
NotSyncN_Missing(b) == FALSE

\* buffer[0] != 0xAA
NotSyncN(b) == At(b, 0) # SYNC

\* Mutant of IncompleteN: len(buffer) < 2 + length, the checksum byte is
\* not waited for
IncompleteN_ForgetsChecksum(b) == Len(b) < 2 + At(b, 1)

\* len(buffer) < 2 + length + 1
IncompleteN(b) == Len(b) < 2 + At(b, 1) + 1

\* The 0-based indices of buffer one iteration reads with buffer[k]:
\* buffer[0], then buffer[1], then buffer[2+length]
AccessesN(b) ==
    IF TooShortN(b) THEN {}
    ELSE IF NotSyncN(b) THEN {0}
    ELSE IF IncompleteN(b) THEN {0, 1}
    ELSE {0, 1, 2 + At(b, 1)}

\* buffer[k] raises IndexError when k is not an index of buffer
FaultN(b) == \E k \in AccessesN(b) : k >= Len(b)

\* Mutant of RemainingN: buffer[2+length:], the checksum byte is left behind
RemainingN_KeepsChecksum(b) == SliceFrom(b, 2 + At(b, 1))

\* buffer[2+length+1:]
RemainingN(b) == SliceFrom(b, 2 + At(b, 1) + 1)

\* Mutant of StepN: an incomplete frame is dropped at the break
StepN_DropsPartial(st) ==
    LET b == st.buffer IN
    IF Len(b) < 3 THEN [st |-> st, stop |-> TRUE]
    ELSE IF At(b, 0) # SYNC THEN [st |-> Dec(Tail(b), st.y_data, st.events), stop |-> FALSE]
    ELSE IF Len(b) < 2 + At(b, 1) + 1
    THEN [st |-> Dec(<<>>, st.y_data, st.events), stop |-> TRUE]
    ELSE LET length == At(b, 1) IN
         [st |-> Deliver(st, Slice(b, 2, 2 + length), At(b, 2 + length),
                         Slice(b, 0, 2 + length + 1), SliceFrom(b, 2 + length + 1)),
          stop |-> FALSE]

\* Mutant of StepN: a byte that is not the sync byte is not popped before
\* the loop continues
StepN_NoPop(st) ==
    LET b == st.buffer IN
    IF Len(b) < 3 THEN [st |-> st, stop |-> TRUE]
    ELSE IF At(b, 0) # SYNC THEN [st |-> st, stop |-> FALSE]
    ELSE IF Len(b) < 2 + At(b, 1) + 1 THEN [st |-> st, stop |-> TRUE]
    ELSE LET length == At(b, 1) IN
         [st |-> Deliver(st, Slice(b, 2, 2 + length), At(b, 2 + length),
                         Slice(b, 0, 2 + length + 1), SliceFrom(b, 2 + length + 1)),
          stop |-> FALSE]

\* One iteration of the while True loop: stop is TRUE at a break, and when
\* an exception leaves the loop for the except clause.
StepN(st) ==
    LET b == st.buffer IN
    IF FaultN(b)
    THEN [st |-> Dec(b, st.y_data, Append(st.events, ErrorEvent)), stop |-> TRUE]
    ELSE IF TooShortN(b) THEN [st |-> st, stop |-> TRUE]
    ELSE IF NotSyncN(b) THEN [st |-> Dec(Tail(b), st.y_data, st.events), stop |-> FALSE]
    ELSE IF IncompleteN(b) THEN [st |-> st, stop |-> TRUE]
    ELSE LET length == At(b, 1) IN
         [st |-> Deliver(st, Slice(b, 2, 2 + length), At(b, 2 + length),
                         Slice(b, 0, 2 + length + 1), RemainingN(b)),
          stop |-> FALSE]

RECURSIVE RunN(_)
\* The whole while True loop.
RunN(st) ==
    LET r == StepN(st) IN IF r.stop THEN r.st ELSE RunN(r.st)

\* ---------------------------------------------- plottter_stm.py: the loop
\* Mutant of Find: buffer.rfind, the greatest index of the sync byte
Find_Last(b) ==
    IF \A i \in 1..Len(b) : b[i] # SYNC THEN -1
    ELSE (CHOOSE i \in 1..Len(b) : b[i] = SYNC /\ \A j \in (i + 1)..Len(b) : b[j] # SYNC) - 1

\* buffer.find(b'\xAA'): the least 0-based index of the sync byte, or -1
Find(b) ==
    IF \A i \in 1..Len(b) : b[i] # SYNC THEN -1
    ELSE (CHOOSE i \in 1..Len(b) : b[i] = SYNC /\ \A j \in 1..(i - 1) : b[j] # SYNC) - 1

\* Mutant of RemainingS: one byte after the frame is dropped with it
RemainingS_SkipsOne(b, start_index, length) == SliceFrom(b, start_index + 2 + length + 2)

\* buffer[start_index + 2 + length + 1:]
RemainingS(b, start_index, length) == SliceFrom(b, start_index + 2 + length + 1)

\* Mutant of extract_packet: when no whole packet is there yet, the bytes
\* before the sync byte and the sync byte are dropped
extract_packet_DropsShort(b) ==
    LET start_index == Find(b) IN
    IF start_index = -1 THEN [packet |-> <<>>, buffer |-> b]
    ELSE IF Len(b) < start_index + 3
    THEN [packet |-> <<>>, buffer |-> SliceFrom(b, start_index + 1)]
    ELSE LET length == At(b, start_index + 1) IN
         IF Len(b) < start_index + 2 + length + 1
         THEN [packet |-> <<>>, buffer |-> SliceFrom(b, start_index + 1)]
         ELSE [packet |-> Slice(b, start_index, start_index + 2 + length + 1),
               buffer |-> SliceFrom(b, start_index + 2 + length + 1)]

\* extract_packet(buffer): <<packet, remaining>>, packet = <<>> standing for
\* None (a packet holds at least 3 bytes)
extract_packet(b) ==
    LET start_index == Find(b) IN
    IF start_index = -1 THEN [packet |-> <<>>, buffer |-> b]
    ELSE IF Len(b) < start_index + 3 THEN [packet |-> <<>>, buffer |-> b]
    ELSE LET length == At(b, start_index + 1) IN
         IF Len(b) < start_index + 2 + length + 1
         THEN [packet |-> <<>>, buffer |-> b]
         ELSE [packet |-> Slice(b, start_index, start_index + 2 + length + 1),
               buffer |-> RemainingS(b, start_index, length)]

\* The 0-based indices of buffer extract_packet reads with buffer[k]:
\* buffer[start_index + 1]
AccessesS(b) ==
    LET start_index == Find(b) IN
    IF start_index = -1 THEN {}
    ELSE IF Len(b) < start_index + 3 THEN {}
    ELSE {start_index + 1}

\* buffer[k] raises IndexError when k is not an index of buffer
FaultS(b) == \E k \in AccessesS(b) : k >= Len(b)

\* One iteration of the while True loop: stop is TRUE at the break, and when
\* an exception leaves the loop for the except clause.
StepS(st) ==
    LET r == extract_packet(st.buffer) IN
    IF FaultS(st.buffer)
    THEN [st |-> Dec(st.buffer, st.y_data, Append(st.events, ErrorEvent)), stop |-> TRUE]
    ELSE IF r.packet = <<>>
    THEN [st |-> Dec(r.buffer, st.y_data, st.events), stop |-> TRUE]
    ELSE [st |-> Deliver(st, SubSeq(r.packet, 3, Len(r.packet) - 1),
                         r.packet[Len(r.packet)], r.packet, r.buffer),
          stop |-> FALSE]

RECURSIVE RunS(_)
\* The whole while True loop.
RunS(st) ==
    LET r == StepS(st) IN IF r.stop THEN r.st ELSE RunS(r.st)

\* ------------------------------------------------------------------- input
\* Bit k of byte x
Bit(x, k) == (x \div (2 ^ k)) % 2

\* Byte x with bit k inverted (a transmission fault)
FlipBit(x, k) == IF Bit(x, k) = 1 THEN x - (2 ^ k) ELSE x + (2 ^ k)

RECURSIVE SumBits(_, _)
\* The number of bytes of p that have bit k set
SumBits(p, k) == IF p = <<>> THEN 0 ELSE Bit(Head(p), k) + SumBits(Tail(p), k)

RECURSIVE Parity(_, _)
\* The sender's checksum byte: bit k is the parity of bit k over the payload
\* (the XOR of all payload bytes), from bit k upwards
Parity(p, k) == IF k > 7 THEN 0 ELSE (SumBits(p, k) % 2) + (2 * Parity(p, k + 1))

WireChecksum(p) == Parity(p, 0)

\* A frame whose checksum byte arrives as c.
FrameWith(p, c) == <<SYNC, Len(p)>> \o p \o <<c>>

\* The sender's frame for a payload (the wire format both loops parse).
Frame(p) == FrameWith(p, WireChecksum(p))

\* Sequences over S of length 0..n
SeqsUpTo(S, n) == UNION {[1..k -> S] : k \in 0..n}

\* Payloads the sender frames whole in one read.
Payloads == {<<>>, <<1>>, <<SYNC>>, <<5, 10, 15>>, <<1, 2>>, <<SYNC, SYNC>>}

\* One frame, as sent or with bit 0 of its checksum byte inverted.
FrameChunks ==
    {Frame(p) : p \in Payloads}
    \cup {FrameWith(p, FlipBit(WireChecksum(p), 0)) : p \in Payloads}

\* What one ser.read(ser.in_waiting or 1) can return: nothing (a timeout),
\* a few arbitrary bytes, one frame, or two frames back to back.
Chunks ==
    SeqsUpTo(Bytes, MaxChunk)
    \cup FrameChunks
    \cup {f \o Frame(q) : f \in FrameChunks, q \in Payloads}

\* ------------------------------------------------------------------- state
VARIABLES
    fed,      \* history: every byte read so far, in order
    calls,    \* history: the number of update calls so far
    paused,   \* the pause flag (toggle_pause)
    bufferN, y_dataN, eventsN,   \* plotter_nodemcu2.py
    bufferS, y_dataS, eventsS,   \* plottter_stm.py
    pcN, pcS, \* where each script's update is: "idle" or in its "loop"
    cs,       \* verify_checksum on its own: its arguments and its result
    win,      \* a window on its own: the deque and the samples pushed
    sig       \* estimate_frequency on its own: its signal and its result

decN == <<bufferN, y_dataN, eventsN>>
decS == <<bufferS, y_dataS, eventsS>>
vars == <<fed, calls, paused, decN, decS, pcN, pcS, cs, win, sig>>

NoCs == [data |-> <<>>, checksum |-> 0, fault |-> "none", verified |-> FALSE, result |-> FALSE]
NoWin == [y |-> Zeros, pushed |-> <<>>, longest |-> 0]
NoSig == [signal |-> Zeros, done |-> FALSE, freq |-> [num |-> 0, den |-> 1]]

InitDecoders ==
    /\ fed = <<>>
    /\ calls = 0
    /\ paused = FALSE
    /\ bufferN = <<>>
    /\ y_dataN = Zeros
    /\ eventsN = <<>>
    /\ bufferS = <<>>
    /\ y_dataS = Zeros
    /\ eventsS = <<>>
    /\ pcN = "idle"
    /\ pcS = "idle"

Init == InitDecoders /\ cs = NoCs /\ win = NoWin /\ sig = NoSig

\* toggle_pause(event): a GUI callback, run by the event loop between two
\* update calls, never inside one
toggle_pause ==
    /\ pcN = "idle" /\ pcS = "idle"
    /\ paused' = ~paused
    /\ UNCHANGED <<fed, calls, decN, decS, pcN, pcS, cs, win, sig>>

\* buffer += ser.read(ser.in_waiting or 1), the behaviour kept within
\* maxCalls calls and limit bytes
Read(maxCalls, limit, chunk) ==
    /\ pcN = "idle" /\ pcS = "idle"
    /\ calls < maxCalls
    /\ Len(fed) + Len(chunk) <= limit
    /\ fed' = fed \o chunk
    /\ calls' = calls + 1

\* Mutant of updateN: while paused, the bytes read are not kept
updateN_DropsWhilePaused(b) ==
    IF paused THEN Dec(bufferN, y_dataN, eventsN) ELSE RunN(Dec(b, y_dataN, eventsN))

\* update(frame) of plotter_nodemcu2.py, the buffer holding the chunk read
updateN(b) == IF paused THEN Dec(b, y_dataN, eventsN) ELSE RunN(Dec(b, y_dataN, eventsN))

\* update(frame) of plottter_stm.py, the buffer holding the chunk read
updateS(b) == IF paused THEN Dec(b, y_dataS, eventsS) ELSE RunS(Dec(b, y_dataS, eventsS))

\* update(frame) of both scripts on the chunk ser.read returned
updateWithin(maxCalls, limit, chunk) ==
    /\ Read(maxCalls, limit, chunk)
    /\ LET n == updateN(bufferN \o chunk)
           s == updateS(bufferS \o chunk)
       IN  /\ bufferN' = n.buffer
           /\ y_dataN' = n.y_data
           /\ eventsN' = n.events
           /\ bufferS' = s.buffer
           /\ y_dataS' = s.y_data
           /\ eventsS' = s.events
    /\ UNCHANGED <<paused, pcN, pcS, cs, win, sig>>

update(chunk) == updateWithin(MaxCalls, MaxStream, chunk)

Next ==
    \/ \E chunk \in Chunks : update(chunk)
    \/ toggle_pause

Spec == Init /\ [][Next]_vars

\* ------------------------------------------------------- reference notions
\* A step that is an update call made with the pause flag off.
DecodingCall == calls' # calls /\ ~paused

\* The chunk the step's update call read.
ChunkRead == SubSeq(fed', Len(fed) + 1, Len(fed'))

\* Either decoder run once over a whole stream, from the initial state.
WholeN(s) == RunN(Dec(s, Zeros, <<>>))
WholeS(s) == RunS(Dec(s, Zeros, <<>>))

\* f has the wire format of one frame: sync, length, that many payload bytes,
\* one checksum byte.
FrameShaped(f) == Len(f) >= 3 /\ f[1] = SYNC /\ Len(f) = f[2] + 3

\* The payload field of a frame-shaped sequence.
PayloadOf(f) == SubSeq(f, 3, Len(f) - 1)

\* f is a frame as the sender builds it.
WellFormed(f) == FrameShaped(f) /\ f[Len(f)] = WireChecksum(PayloadOf(f))

\* f is a frame all of whose bytes are intact but the checksum byte.
ChecksumCorrupted(f) == FrameShaped(f) /\ f[Len(f)] # WireChecksum(PayloadOf(f))

RECURSIVE FramesOf(_)
\* The frames of a list of payloads, concatenated.
FramesOf(ps) == IF ps = <<>> THEN <<>> ELSE Frame(Head(ps)) \o FramesOf(Tail(ps))

RECURSIVE PayloadEvents(_)
PayloadEvents(ps) ==
    IF ps = <<>> THEN <<>> ELSE <<PayloadEvent(Head(ps))>> \o PayloadEvents(Tail(ps))

RECURSIVE Flatten(_)
Flatten(ps) == IF ps = <<>> THEN <<>> ELSE Head(ps) \o Flatten(Tail(ps))

\* The lists of one or two payloads.
PayloadLists == SeqsUpTo(Payloads, 2) \ {<<>>}

\* The lists of one or two payloads whose frames, concatenated, are s.
FramedAs(s) == {ps \in PayloadLists : FramesOf(ps) = s}

\* ---------------------------------------------------------------------- C1
\* C1: chunk-boundary independence. After every update call made with the
\* pause flag off, the events each decoder has produced from the chunks fed so
\* far are the events it produces from the same bytes fed in a single call.
C1_ChunkIndependence ==
    [][DecodingCall =>
        /\ eventsN' = WholeN(fed').events
        /\ eventsS' = WholeS(fed').events]_vars

\* A frame fed one byte per call, with one empty read among the calls, has
\* been decoded.
C1_Witness ==
    /\ fed = Frame(<<1>>)
    /\ calls = Len(fed) + 1
    /\ ~paused
    /\ eventsN = <<PayloadEvent(<<1>>)>>
    /\ eventsS = <<PayloadEvent(<<1>>)>>

\* ---------------------------------------------------------------------- C2
\* C2: N well-formed frames in one call. An update call that finds the buffer
\* empty and reads N concatenated well-formed frames adds exactly their N
\* payloads as Payload events, in order, pushes them into the window, and
\* leaves the buffer empty.
C2_FramesInOneCall ==
    [][(DecodingCall /\ Len(ChunkRead) >= 3 /\ ChunkRead[1] = SYNC
            /\ (bufferN = <<>> \/ bufferS = <<>>)) =>
        \A ps \in FramedAs(ChunkRead) :
                /\ bufferN = <<>> =>
                     /\ eventsN' = eventsN \o PayloadEvents(ps)
                     /\ y_dataN' = Extend(y_dataN, Flatten(ps))
                     /\ bufferN' = <<>>
                /\ bufferS = <<>> =>
                     /\ eventsS' = eventsS \o PayloadEvents(ps)
                     /\ y_dataS' = Extend(y_dataS, Flatten(ps))
                     /\ bufferS' = <<>>]_vars

\* Two frames read by the first call, one whose payload is the sync byte and
\* one with no payload, have been decoded.
C2_Witness ==
    /\ calls = 1
    /\ fed = Frame(<<SYNC>>) \o Frame(<<>>)
    /\ eventsN = <<PayloadEvent(<<SYNC>>), PayloadEvent(<<>>)>>
    /\ eventsS = eventsN
    /\ bufferN = <<>> /\ bufferS = <<>>

\* ---------------------------------------------------------------------- C3
\* s is noise without a sync byte followed by one well-formed frame.
NoiseThenFrame(s, k) ==
    /\ k >= 1
    /\ \A i \in 1..k : s[i] # SYNC
    /\ WellFormed(SubSeq(s, k + 1, Len(s)))

\* C3: noise before a frame. When the stream fed from the start is noise
\* bytes, none of them the sync byte, followed by one well-formed frame, then
\* after the decoding call the events are the frame's single Payload event
\* and the window holds the frame's payload and nothing of the noise.
C3_NoiseDiscarded ==
    [][DecodingCall =>
        \A k \in 1..(Len(fed') - 3) :
            NoiseThenFrame(fed', k) =>
                LET p == PayloadOf(SubSeq(fed', k + 1, Len(fed'))) IN
                /\ eventsN' = <<PayloadEvent(p)>>
                /\ y_dataN' = Extend(Zeros, p)
                /\ eventsS' = <<PayloadEvent(p)>>
                /\ y_dataS' = Extend(Zeros, p)]_vars

\* Three noise bytes and a frame have been fed in several calls and decoded.
C3_Witness ==
    /\ fed = <<1, 0, 1>> \o Frame(<<SYNC>>)
    /\ calls >= 2
    /\ eventsN = <<PayloadEvent(<<SYNC>>)>>
    /\ eventsS = <<PayloadEvent(<<SYNC>>)>>
    /\ y_dataN = Extend(Zeros, <<SYNC>>)

\* ---------------------------------------------------------------------- C4
\* s is a frame with a corrupted checksum byte followed by a well-formed frame.
CorruptedThenValid(s) ==
    /\ Len(s) >= 6
    /\ s[1] = SYNC
    /\ Len(s) >= s[2] + 6
    /\ ChecksumCorrupted(SubSeq(s, 1, s[2] + 3))
    /\ WellFormed(SubSeq(s, s[2] + 4, Len(s)))

\* C4: recovery after a checksum failure. When the stream fed from the start
\* is a frame whose checksum byte is corrupted followed by a well-formed
\* frame, then after the decoding call the events are one checksum failure
\* carrying the corrupted frame and one Payload event carrying the second
\* frame's payload, and the window holds the second payload only.
C4_ChecksumRecovery ==
    [][(DecodingCall /\ CorruptedThenValid(fed')) =>
        LET bad == SubSeq(fed', 1, fed'[2] + 3)
            q == PayloadOf(SubSeq(fed', fed'[2] + 4, Len(fed')))
        IN  /\ eventsN' = <<FailEvent(bad), PayloadEvent(q)>>
            /\ y_dataN' = Extend(Zeros, q)
            /\ eventsS' = <<FailEvent(bad), PayloadEvent(q)>>
            /\ y_dataS' = Extend(Zeros, q)]_vars

\* A frame with payload 1 and a wrong checksum, then a frame with the sync
\* byte as payload, have been decoded.
C4_Witness ==
    /\ fed = FrameWith(<<1>>, 0) \o Frame(<<SYNC>>)
    /\ eventsN = <<FailEvent(FrameWith(<<1>>, 0)), PayloadEvent(<<SYNC>>)>>
    /\ eventsS = eventsN
    /\ y_dataN = Extend(Zeros, <<SYNC>>)
    /\ y_dataS = y_dataN

\* ------------------------------------------------- the window on its own
\* Sample values pushed one or two at a time.
Samples == 0..5

\* The payloads y_data.extend is handed: short ones of any content, and two
\* that are longer than the window.
WinData == SeqsUpTo(Samples, 2) \cup {<<1, 2, 3, 4, 5>>, <<1, 2, 3, 4, 5, 6>>}

\* y_data.extend(data)
WinExtend(data) ==
    /\ Len(win.pushed) + Len(data) <= MaxPushed
    /\ win' = [y |-> Extend(win.y, data),
               pushed |-> win.pushed \o data,
               longest |-> IF Len(data) > win.longest THEN Len(data) ELSE win.longest]
    /\ UNCHANGED <<fed, calls, paused, decN, decS, pcN, pcS, cs, sig>>

WinNext == \E data \in WinData : WinExtend(data)

SpecWindow == Init /\ [][WinNext]_vars

\* The last n elements of s
LastN(s, n) == SubSeq(s, Len(s) - n + 1, Len(s))

\* ---------------------------------------------------------------------- C5
\* C5: the window is a strict FIFO of capacity max_points. In every state its
\* length is max_points and its content, oldest first, is the last max_points
\* elements of max_points zeros followed by every sample pushed, in push
\* order, also when one payload longer than the window is appended at once.
C5_WindowFifo ==
    /\ Len(win.y) = max_points
    /\ win.y = LastN(Zeros \o win.pushed, max_points)

\* One extend call has pushed 1,2,3,4,5 into the window of capacity 4.
C5_Witness ==
    /\ max_points = 4
    /\ win.longest = 5
    /\ win.pushed = <<1, 2, 3, 4, 5>>
    /\ win.y = <<2, 3, 4, 5>>

\* ------------------------------------------- verify_checksum on its own
\* Byte values whose bits cover all eight positions.
CsBytes == {0, 1, 85, 170, 255}

\* A payload arrives with the sender's checksum.
InitChecksum ==
    /\ InitDecoders
    /\ win = NoWin
    /\ sig = NoSig
    /\ \E p \in SeqsUpTo(CsBytes, MaxCsLen) :
          cs = [data |-> p, checksum |-> WireChecksum(p), fault |-> "none",
                verified |-> FALSE, result |-> FALSE]

\* s with bit k of its i-th byte inverted
FlipAt(s, i, k) == [s EXCEPT ![i] = FlipBit(s[i], k)]

\* One bit of one payload byte is inverted on the wire.
FlipPayloadBit(i, k) ==
    /\ cs.fault = "none" /\ ~cs.verified
    /\ cs' = [cs EXCEPT !.data = FlipAt(cs.data, i, k), !.fault = "payload_bit"]
    /\ UNCHANGED <<fed, calls, paused, decN, decS, pcN, pcS, win, sig>>

\* One bit of the checksum byte is inverted on the wire.
FlipChecksumBit(k) ==
    /\ cs.fault = "none" /\ ~cs.verified
    /\ cs' = [cs EXCEPT !.checksum = FlipBit(cs.checksum, k), !.fault = "checksum_bit"]
    /\ UNCHANGED <<fed, calls, paused, decN, decS, pcN, pcS, win, sig>>

\* The same bit of two different payload bytes is inverted on the wire.
FlipTwoBits(i, j, k) ==
    /\ cs.fault = "none" /\ ~cs.verified
    /\ i # j
    /\ cs' = [cs EXCEPT !.data = FlipAt(FlipAt(cs.data, i, k), j, k), !.fault = "two_bits"]
    /\ UNCHANGED <<fed, calls, paused, decN, decS, pcN, pcS, win, sig>>

\* verify_checksum(data, checksum)
Verify ==
    /\ ~cs.verified
    /\ cs' = [cs EXCEPT !.verified = TRUE, !.result = verify_checksum(cs.data, cs.checksum)]
    /\ UNCHANGED <<fed, calls, paused, decN, decS, pcN, pcS, win, sig>>

ChecksumNext ==
    \/ \E i \in 1..Len(cs.data), k \in 0..7 : FlipPayloadBit(i, k)
    \/ \E k \in 0..7 : FlipChecksumBit(k)
    \/ \E i \in 1..Len(cs.data), j \in 1..Len(cs.data), k \in 0..7 : FlipTwoBits(i, j, k)
    \/ Verify

SpecChecksum == InitChecksum /\ [][ChecksumNext]_vars

\* ---------------------------------------------------------------------- C6
\* C6: verify_checksum accepts every payload with the XOR of its bytes,
\* rejects it after one bit of one payload byte or of the checksum byte is
\* inverted, and accepts it again after the same bit of two different payload
\* bytes is inverted (the blind spot).
C6_ChecksumDetects ==
    cs.verified => (cs.result <=> cs.fault \in {"none", "two_bits"})

\* A three-byte payload with one inverted bit has been rejected.
C6_Witness ==
    /\ cs.verified
    /\ cs.fault = "payload_bit"
    /\ Len(cs.data) = 3
    /\ ~cs.result

\* ---------------------------------------------------------------------- C7
\* No byte of s is the sync byte.
NoSync(s) == \A i \in 1..Len(s) : s[i] # SYNC

\* C7: a buffer without a sync byte is discarded whole. When, after the chunk
\* is appended, the buffer holds at least 3 bytes and no sync byte, the
\* decoding call leaves the buffer empty and emits no event.
C7_NoSyncDiscardsAll ==
    [][DecodingCall =>
        /\ (Len(bufferN \o ChunkRead) >= 3 /\ NoSync(bufferN \o ChunkRead)) =>
              (bufferN' = <<>> /\ eventsN' = eventsN)
        /\ (Len(bufferS \o ChunkRead) >= 3 /\ NoSync(bufferS \o ChunkRead)) =>
              (bufferS' = <<>> /\ eventsS' = eventsS)]_vars

\* ---------------------------------------------------------------------- C8
\* b starts with the sync byte and is shorter than the frame it announces.
PartialFrame(b) ==
    /\ Len(b) >= 1
    /\ b[1] = SYNC
    /\ (Len(b) < 3 \/ Len(b) < 2 + b[2] + 1)

\* The event the frame at the head of b is decoded to.
HeadFrameEvent(b) ==
    LET f == SubSeq(b, 1, b[2] + 3) IN
    IF WellFormed(f) THEN PayloadEvent(PayloadOf(f)) ELSE FailEvent(f)

\* One decoder's part of C8: old and new are its buffer and events before
\* and after the call.
KeepsPartialFrame(oldBuf, oldEv, newBuf, newEv) ==
    LET b == oldBuf \o ChunkRead IN
    /\ PartialFrame(b) => (newEv = oldEv /\ newBuf = b)
    /\ (PartialFrame(oldBuf) /\ ~PartialFrame(b)) =>
          /\ Len(newEv) > Len(oldEv)
          /\ newEv[Len(oldEv) + 1] = HeadFrameEvent(b)

\* C8: an incomplete frame is never discarded. When, after the chunk is
\* appended, the buffer starts with the sync byte and holds fewer bytes than
\* 2 + length + 1, the decoding call emits no event and removes no byte; the
\* call whose chunk completes the frame emits it.
C8_IncompleteKept ==
    [][DecodingCall =>
        /\ KeepsPartialFrame(bufferN, eventsN, bufferN', eventsN')
        /\ KeepsPartialFrame(bufferS, eventsS, bufferS', eventsS')]_vars

\* A frame has been kept over two calls and emitted by the third.
C8_Witness ==
    /\ calls = 3
    /\ ~paused
    /\ fed = Frame(<<SYNC>>)
    /\ eventsN = <<PayloadEvent(<<SYNC>>)>>
    /\ eventsS = <<PayloadEvent(<<SYNC>>)>>
    /\ bufferN = <<>> /\ bufferS = <<>>

\* ----------------------------------------------------------- a flooded port
\* n noise bytes
Noise(n) == [i \in 1..n |-> 0]

\* Reads of a port that delivers bursts of noise and now and then a frame.
FloodChunks == {<<>>, Noise(33), Noise(40), Frame(<<1>>)}

\* The pause flag stays off.
FloodNext == \E chunk \in FloodChunks : updateWithin(FloodCalls, FloodStream, chunk)

SpecFlood == Init /\ [][FloodNext]_vars

\* The bytes of one frame of the greatest length: 2 + 255 + 1.
MaxInFlight == 2 + 255 + 1

\* ---------------------------------------------------------------------- C9
\* C9: the buffer is bounded. After every update call made with the pause
\* flag off, the buffer of either script holds at most 2 + 255 + 1 bytes.
C9_BufferBounded ==
    [][DecodingCall =>
        /\ Len(bufferN') <= MaxInFlight
        /\ Len(bufferS') <= MaxInFlight]_vars

\* The part of C9 that plotter_nodemcu2.py keeps: its buffer holds fewer
\* than 3 bytes or the start of one frame.
C9_NodemcuBounded ==
    [][DecodingCall =>
        (Len(bufferN') < 3 \/ (PartialFrame(bufferN') /\ Len(bufferN') < MaxInFlight))]_vars

\* ------------------------------------------ the loops, one iteration a step
\* The first statement of update: the chunk read is appended to the buffer,
\* and the while True loop is entered unless the pause flag is on.
LoopRead(chunk) ==
    /\ Read(LoopCalls, LoopStream, chunk)
    /\ bufferN' = bufferN \o chunk
    /\ bufferS' = bufferS \o chunk
    /\ pcN' = IF paused THEN "idle" ELSE "loop"
    /\ pcS' = IF paused THEN "idle" ELSE "loop"
    /\ UNCHANGED <<paused, y_dataN, eventsN, y_dataS, eventsS, cs, win, sig>>

\* One iteration of the loop of plotter_nodemcu2.py
LoopIterN ==
    /\ pcN = "loop"
    /\ LET r == StepN(Dec(bufferN, y_dataN, eventsN)) IN
       /\ bufferN' = r.st.buffer
       /\ y_dataN' = r.st.y_data
       /\ eventsN' = r.st.events
       /\ pcN' = IF r.stop THEN "idle" ELSE "loop"
    /\ UNCHANGED <<fed, calls, paused, decS, pcS, cs, win, sig>>

\* One iteration of the loop of plottter_stm.py
LoopIterS ==
    /\ pcS = "loop"
    /\ LET r == StepS(Dec(bufferS, y_dataS, eventsS)) IN
       /\ bufferS' = r.st.buffer
       /\ y_dataS' = r.st.y_data
       /\ eventsS' = r.st.events
       /\ pcS' = IF r.stop THEN "idle" ELSE "loop"
    /\ UNCHANGED <<fed, calls, paused, decN, pcN, cs, win, sig>>

LoopNext ==
    \/ \E chunk \in Chunks : LoopRead(chunk)
    \/ LoopIterN
    \/ LoopIterS
    \/ toggle_pause

\* A loop that has been entered keeps executing: nothing in it waits.
SpecLoop ==
    Init /\ [][LoopNext]_vars /\ WF_vars(LoopIterN) /\ WF_vars(LoopIterS)

\* ---------------------------------------------------------------------- C10
\* C10: every update call terminates. An iteration of either loop that does
\* not stop leaves the buffer strictly shorter, and a loop that has been
\* entered is left again.
C10_LoopTerminates ==
    /\ [][(LoopIterN /\ pcN' = "loop") => Len(bufferN') < Len(bufferN)]_vars
    /\ [][(LoopIterS /\ pcS' = "loop") => Len(bufferS') < Len(bufferS)]_vars
    /\ (pcN = "loop") ~> (pcN = "idle")
    /\ (pcS = "loop") ~> (pcS = "idle")

\* In the first call the loop of plotter_nodemcu2.py has handled one frame
\* and goes on with the bytes behind it.
C10_Witness ==
    /\ calls = 1
    /\ pcN = "loop"
    /\ Len(eventsN) = 1
    /\ Len(bufferN) >= 3

\* ---------------------------------------------------------------------- C11
\* The kinds of event the decode loop has for its input.
DecodeKinds == {"payload", "checksum_failed"}

\* C11: malformed input causes no fault. Whatever bytes have been read, in
\* whatever chunks, no iteration of either loop has read buffer[k] at an index
\* outside the buffer: the except clause has never been entered, and every
\* event is a Payload or a checksum failure.
C11_NoFault ==
    /\ \A i \in 1..Len(eventsN) : eventsN[i].kind \in DecodeKinds
    /\ \A i \in 1..Len(eventsS) : eventsS[i].kind \in DecodeKinds
    /\ ~FaultN(bufferN)
    /\ ~FaultS(bufferS)

\* A stream of noise, a frame with a wrong checksum and two sync bytes has
\* been decoded to one checksum failure.
C11_Witness ==
    /\ fed = <<1, SYNC, 0, 1, SYNC, SYNC>>
    /\ ~paused
    /\ eventsN = <<FailEvent(<<SYNC, 0, 1>>)>>
    /\ eventsS = eventsN
    /\ bufferN = <<SYNC, SYNC>>

\* ------------------------------------------- estimate_frequency on its own
\* SAMPLE_RATE = 10000
SAMPLE_RATE == 10000

\* A Python float that is the quotient of two integers, kept as the quotient.
Rat(n, d) == [num |-> n, den |-> d]

\* return 0
Zero == Rat(0, 1)

\* The sum of y[lo..hi] (1-based), by halves as np.mean adds.
RECURSIVE SumRange(_, _, _)
SumRange(y, lo, hi) ==
    IF lo > hi THEN 0
    ELSE IF lo = hi THEN y[lo]
    ELSE LET mid == (lo + hi) \div 2 IN SumRange(y, lo, mid) + SumRange(y, mid + 1, hi)

\* np.mean(y)
Mean(y) == Rat(SumRange(y, 1, Len(y)), Len(y))

\* Mutant of Sign: zero counted as positive
Sign_ZeroPositive(x) == IF x >= 0 THEN 1 ELSE -1

\* np.sign(x): zero has a sign of its own
Sign(x) == IF x > 0 THEN 1 ELSE IF x < 0 THEN -1 ELSE 0

\* np.sign(y - mean)[i], i 0-based: y[i] - n/d has the sign of d*y[i] - n
SignAboveMean(y, mean, i) == Sign((mean.den * At(y, i)) - mean.num)

\* Mutant of Crossings: every change of sign, falling ones too
Crossings_AnyChange(y) ==
    LET mean == Mean(y) IN
    {i \in 0..(Len(y) - 2) :
        SignAboveMean(y, mean, i + 1) - SignAboveMean(y, mean, i) # 0}

\* np.where(np.diff(np.sign(y - mean)) > 0)[0], as the set of its indices
Crossings(y) ==
    LET mean == Mean(y) IN
    {i \in 0..(Len(y) - 2) :
        SignAboveMean(y, mean, i + 1) - SignAboveMean(y, mean, i) > 0}

\* The elements of a set of integers in increasing order, as np.where
\* returns them.
RECURSIVE Ascending(_)
Ascending(S) ==
    IF S = {} THEN <<>>
    ELSE LET m == CHOOSE x \in S : \A z \in S : x <= z
         IN  <<m>> \o Ascending(S \ {m})

\* np.diff(c)
Diff(c) == [i \in 1..(Len(c) - 1) |-> c[i + 1] - c[i]]

\* def estimate_frequency(y, sample_rate): 0 with fewer than 2 crossings,
\* or else sample_rate / np.mean(np.diff(crossings))
estimate_frequency(y, sample_rate) ==
    LET crossings == Ascending(Crossings(y)) IN
    IF Len(crossings) < 2 THEN Zero
    ELSE LET period_samples == Mean(Diff(crossings))
         IN  Rat(sample_rate * period_samples.den, period_samples.num)

\* The longest short signal.
MaxSignal == 5

\* Sample values of short signals: the ends of the 8-bit range and its low values.
SignalSamples == {0, 1, 2, 3, 255}

\* One period of a sine of 100 samples per cycle, as 8-bit samples around 128:
\* 128 + round(127 sin(2 pi i / 100)) for i = 0..99. Samples 0 and 50 are 128,
\* the mean.
SineTable ==
    <<
       128, 136, 144, 152, 160, 167, 175, 182, 189, 196,
       203, 209, 215, 221, 226, 231, 235, 239, 243, 246,
       249, 251, 253, 254, 255, 255, 255, 254, 253, 251,
       249, 246, 243, 239, 235, 231, 226, 221, 215, 209,
       203, 196, 189, 182, 175, 167, 160, 152, 144, 136,
       128, 120, 112, 104,  96,  89,  81,  74,  67,  60,
        53,  47,  41,  35,  30,  25,  21,  17,  13,  10,
         7,   5,   3,   2,   1,   1,   1,   2,   3,   5,
         7,  10,  13,  17,  21,  25,  30,  35,  41,  47,
        53,  60,  67,  74,  81,  89,  96, 104, 112, 120
    >>

\* The same sine half a sample later: 128 + round(127 sin(2 pi (i + 1/2) / 100)).
\* Its mean is 128 and no sample is 128.
SineTableHalf ==
    <<
       132, 140, 148, 156, 163, 171, 178, 186, 193, 199,
       206, 212, 218, 223, 228, 233, 237, 241, 245, 247,
       250, 252, 253, 254, 255, 255, 254, 253, 252, 250,
       247, 245, 241, 237, 233, 228, 223, 218, 212, 206,
       199, 193, 186, 178, 171, 163, 156, 148, 140, 132,
       124, 116, 108, 100,  93,  85,  78,  70,  63,  57,
        50,  44,  38,  33,  28,  23,  19,  15,  11,   9,
         6,   4,   3,   2,   1,   1,   2,   3,   4,   6,
         9,  11,  15,  19,  23,  28,  33,  38,  44,  50,
        57,  63,  70,  78,  85,  93, 100, 108, 116, 124
    >>

\* One full period of the sine in table, starting phase samples into the cycle.
SinePeriod(table, phase) ==
    [i \in 1..Len(table) |-> table[((i - 1 + phase) % Len(table)) + 1]]

SineWindows ==
    {SinePeriod(table, phase) :
        table \in {SineTable, SineTableHalf}, phase \in 0..(Len(SineTable) - 1)}

\* The signals estimate_frequency is handed: every short one, and the sines.
Signals == (SeqsUpTo(SignalSamples, MaxSignal) \ {<<>>}) \cup SineWindows

InitFreq ==
    /\ InitDecoders
    /\ cs = NoCs
    /\ win = NoWin
    /\ \E y \in Signals : sig = [signal |-> y, done |-> FALSE, freq |-> Zero]

\* freq = estimate_frequency(y_data, SAMPLE_RATE)
Estimate ==
    /\ ~sig.done
    /\ sig' = [sig EXCEPT !.done = TRUE,
                          !.freq = estimate_frequency(sig.signal, SAMPLE_RATE)]
    /\ UNCHANGED <<fed, calls, paused, decN, decS, pcN, pcS, cs, win>>

FreqNext == Estimate

SpecFreq == InitFreq /\ [][FreqNext]_vars

\* ---------------------------------------------------------------------- C12
\* y never decreases
Ramp(y) == \A i \in 1..(Len(y) - 1) : y[i] <= y[i + 1]

\* C12: estimate_frequency returns 0 on every window that increases
\* monotonically (a ramp), whatever its length, its samples being 0..255.
C12_RampReturnsZero == (sig.done /\ Ramp(sig.signal)) => sig.freq.num = 0

\* ---------------------------------------------------------------------- C13
\* f is within 5% of 100 Hz
Approx100(f) == (95 * f.den <= f.num) /\ (f.num <= 105 * f.den)

\* Some sample of y is exactly the mean of y
TiesWithMean(y) ==
    LET mean == Mean(y) IN
    \E i \in 0..(Len(y) - 1) : SignAboveMean(y, mean, i) = 0

RefSign(w, i) ==
    LET total == SumRange(w, 1, Len(w))
        centred == (Len(w) * At(w, i)) - total
    IN  IF centred > 0 THEN 1 ELSE IF centred < 0 THEN -1 ELSE 0

\* The rising crossings of w: the indices i with
\* sign(w[i+1] - mean) - sign(w[i] - mean) > 0
RefCrossings(w) == {i \in 0..(Len(w) - 2) : RefSign(w, i + 1) - RefSign(w, i) > 0}

\* The largest and the smallest element of a set of integers
SetMax(S) == CHOOSE x \in S : \A z \in S : z <= x
SetMin(S) == CHOOSE x \in S : \A z \in S : x <= z

\* The quotients a and b are the same number
SameNumber(a, b) == a.num * b.den = b.num * a.den

\* C18: estimate_frequency matches its reference. With k rising crossings
\* (zero its own sign, so that a passage -1 -> 0 -> +1 counts twice), the
\* result is 0 when k < 2 and otherwise
\* sample_rate * (k - 1) / (last crossing - first crossing), which is
\* positive and at most sample_rate.
C18_MatchesReference ==
    sig.done =>
        LET c == RefCrossings(sig.signal)
            k == Cardinality(c)
        IN  IF k < 2 THEN sig.freq = Zero
            ELSE /\ SameNumber(sig.freq, Rat(SAMPLE_RATE * (k - 1), SetMax(c) - SetMin(c)))
                 /\ sig.freq.den > 0
                 /\ sig.freq.num > 0
                 /\ sig.freq.num <= SAMPLE_RATE * sig.freq.den

\* A signal that passes its mean 1 through a sample equal to it and then
\* crosses it again: crossings 0, 1 and 3, gaps 1 and 2, so 10000 * 2 / 3.
C18_Witness ==
    /\ sig.done
    /\ sig.signal = <<0, 1, 2, 0, 2>>
    /\ RefCrossings(sig.signal) = {0, 1, 3}
    /\ sig.freq = Rat(2 * SAMPLE_RATE, 3)

\* ---------------------------------------------------------------------- C14
\* The payload bytes, in arrival order, of the frames of s whose checksum
\* verifies: bytes before a sync byte are skipped, a frame is the sync byte,
\* its length byte, that many payload bytes and a checksum byte, and the next
\* frame is looked for after it.
RECURSIVE AcceptedBytes(_)
AcceptedBytes(s) ==
    IF Len(s) < 3 THEN <<>>
    ELSE IF s[1] # SYNC THEN AcceptedBytes(Tail(s))
    ELSE IF Len(s) < s[2] + 3 THEN <<>>
    ELSE LET f == SubSeq(s, 1, s[2] + 3)
             rest == SubSeq(s, s[2] + 4, Len(s))
         IN  (IF WellFormed(f) THEN PayloadOf(f) ELSE <<>>) \o AcceptedBytes(rest)

\* The payload bytes of the Payload events among evs, in order.
RECURSIVE PushedBy(_)
PushedBy(evs) ==
    IF evs = <<>> THEN <<>>
    ELSE (IF Head(evs).kind = "payload" THEN Head(evs).bytes ELSE <<>>)
         \o PushedBy(Tail(evs))

\* C14: end-to-end window content. After every update call the window is the
\* last max_points elements of max_points zeros followed by the payload bytes
\* of the frames accepted so far, in arrival order; after a call that decodes,
\* these are the payload bytes of exactly the frames of the stream whose
\* checksum verifies. Nothing of a rejected frame, of a frame's sync, length
\* or checksum byte or of skipped noise is in the window.
C14_WindowContent ==
    [][(calls' # calls) =>
        /\ y_dataN' = LastN(Zeros \o PushedBy(eventsN'), max_points)
        /\ y_dataS' = LastN(Zeros \o PushedBy(eventsS'), max_points)
        /\ ~paused =>
             /\ y_dataN' = LastN(Zeros \o AcceptedBytes(fed'), max_points)
             /\ y_dataS' = LastN(Zeros \o AcceptedBytes(fed'), max_points)]_vars

\* A frame whose checksum is wrong and a frame whose payload is the sync byte
\* have been read: the window holds the second payload alone.
C14_Witness ==
    /\ fed = FrameWith(<<1>>, 0) \o Frame(<<SYNC>>)
    /\ ~paused
    /\ eventsN = <<FailEvent(FrameWith(<<1>>, 0)), PayloadEvent(<<SYNC>>)>>
    /\ y_dataN = <<0, 0, 0, SYNC>>
    /\ y_dataS = <<0, 0, 0, SYNC>>

\* ---------------------------------------------------------------------- C15
\* Between the buffers b and b2 one frame has been extracted and reported by
\* the event e: b is k bytes without a sync byte, then a frame of 2+length+1
\* bytes whose length is the byte after its sync byte, then b2.
Extracted(b, b2, e) ==
    \E k \in 0..(Len(b) - 3) :
        /\ \A i \in 1..k : b[i] # SYNC
        /\ b[k + 1] = SYNC
        /\ Len(b) >= k + 2 + b[k + 2] + 1
        /\ LET f == SubSeq(b, k + 1, k + 2 + b[k + 2] + 1) IN
           /\ b = SubSeq(b, 1, k) \o f \o b2
           /\ e \in {PayloadEvent(PayloadOf(f)), FailEvent(f)}

\* C15: the effect of a frame extraction on the buffer. An iteration of
\* either loop that reports a frame, accepted or rejected, removes from the
\* buffer exactly the bytes skipped before the sync byte and the 2+length+1
\* bytes of the frame, and leaves the bytes after the frame as they were.
C15_FrameEffect ==
    [][/\ (eventsN' # eventsN) =>
             /\ Len(eventsN') = Len(eventsN) + 1
             /\ Extracted(bufferN, bufferN', eventsN'[Len(eventsN')])
       /\ (eventsS' # eventsS) =>
             /\ Len(eventsS') = Len(eventsS) + 1
             /\ Extracted(bufferS, bufferS', eventsS'[Len(eventsS')])]_vars

\* Both loops have just rejected the empty frame with checksum 1 and are
\* about to go on with the frame that followed it.
C15_Witness ==
    /\ fed = FrameWith(<<>>, 1) \o Frame(<<>>)
    /\ pcN = "loop" /\ pcS = "loop"
    /\ eventsN = <<FailEvent(FrameWith(<<>>, 1))>>
    /\ eventsS = eventsN
    /\ bufferN = Frame(<<>>)
    /\ bufferS = Frame(<<>>)

\* ---------------------------------------------------------------------- C16
\* C16: after every update call made with the pause flag off, the buffer each
\* script retains is shorter than 3 bytes or begins with the sync byte: the
\* bytes before the first sync byte have been discarded, also when the frame
\* after them is incomplete.
C16_RetainedBufferAligned ==
    [][DecodingCall =>
        /\ (Len(bufferN') < 3 \/ bufferN'[1] = SYNC)
        /\ (Len(bufferS') < 3 \/ bufferS'[1] = SYNC)]_vars

\* ---------------------------------------------------------------------- C17
\* The step is an iteration of the loop of plotter_nodemcu2.py
IterationN == pcN = "loop" /\ <<decN, pcN>>' # <<decN, pcN>>

\* The step is an iteration of the loop of plottter_stm.py
IterationS == pcS = "loop" /\ <<decS, pcS>>' # <<decS, pcS>>

\* b begins with the 3-byte frame of no payload and checksum c
HeadEmptyFrame(b, c) == Len(b) >= 3 /\ SubSeq(b, 1, 3) = <<SYNC, 0, c>>

\* C17: the smallest frame has 3 bytes. An iteration that finds AA 00 00 at
\* the head of the buffer reports one Payload event with an empty payload,
\* consumes exactly these 3 bytes and leaves the window as it was; one that
\* finds AA 00 c with c # 0 reports a checksum failure; one that finds the
\* buffer shorter than 3 bytes reports nothing.
C17_MinimumFrame ==
    [][/\ IterationN =>
            /\ HeadEmptyFrame(bufferN, 0) =>
                 /\ eventsN' = Append(eventsN, PayloadEvent(<<>>))
                 /\ bufferN' = SubSeq(bufferN, 4, Len(bufferN))
                 /\ y_dataN' = y_dataN
            /\ \A c \in Bytes \ {0} : HeadEmptyFrame(bufferN, c) =>
                 /\ eventsN' = Append(eventsN, FailEvent(<<SYNC, 0, c>>))
                 /\ y_dataN' = y_dataN
            /\ Len(bufferN) < 3 => eventsN' = eventsN
       /\ IterationS =>
            /\ HeadEmptyFrame(bufferS, 0) =>
                 /\ eventsS' = Append(eventsS, PayloadEvent(<<>>))
                 /\ bufferS' = SubSeq(bufferS, 4, Len(bufferS))
                 /\ y_dataS' = y_dataS
            /\ \A c \in Bytes \ {0} : HeadEmptyFrame(bufferS, c) =>
                 /\ eventsS' = Append(eventsS, FailEvent(<<SYNC, 0, c>>))
                 /\ y_dataS' = y_dataS
            /\ Len(bufferS) < 3 => eventsS' = eventsS]_vars

\* The bytes AA 00 00 and then AA 00 01 have been decoded: an empty payload,
\* then a checksum failure, nothing pushed into the window, nothing retained.
C17_Witness ==
    /\ fed = <<SYNC, 0, 0, SYNC, 0, 1>>
    /\ eventsN = <<PayloadEvent(<<>>), FailEvent(<<SYNC, 0, 1>>)>>
    /\ eventsS = eventsN
    /\ bufferN = <<>> /\ bufferS = <<>>
    /\ pcN = "idle" /\ pcS = "idle"
    /\ y_dataN = Zeros /\ y_dataS = Zeros

\* ---------------------------------------------------------------------- C19
\* C19: the two decoders are observationally equivalent. For every stream, in
\* every chunking, the scripts have reported the same accepted payloads and
\* the same checksum failures, in the same order, and hold the same window,
\* after every update call; the buffers they retain may differ.
C19_SameEventsAndWindow ==
    /\ eventsN = eventsS
    /\ y_dataN = y_dataS

\* After a frame and three noise bytes both scripts have reported the frame's
\* payload; plotter_nodemcu2.py retains two of the noise bytes and
\* plottter_stm.py all three.
C19_Witness ==
    /\ fed = Frame(<<1>>) \o <<0, 0, 0>>
    /\ ~paused
    /\ eventsN = <<PayloadEvent(<<1>>)>>
    /\ eventsS = eventsN
    /\ y_dataN = <<0, 0, 0, 1>>
    /\ y_dataS = y_dataN
    /\ bufferN = <<0, 0>>
    /\ bufferS = <<0, 0, 0>>

\* ---------------------------------------------------------------------- C20
\* C20: pausing neither loses nor duplicates data. An update call made while
\* paused appends the bytes read to the buffer, decodes nothing and leaves
\* the window as it was; after an update call made with the pause flag off,
\* whatever calls before it were made while paused, the events reported and
\* the samples pushed since the start are those of the same stream decoded
\* without any pause.
C20_PauseKeepsData ==
    [][(calls' # calls) =>
        IF paused
        THEN /\ bufferN' = bufferN \o ChunkRead
             /\ bufferS' = bufferS \o ChunkRead
             /\ UNCHANGED <<y_dataN, eventsN, y_dataS, eventsS>>
        ELSE /\ eventsN' = WholeN(fed').events
             /\ y_dataN' = WholeN(fed').y_data
             /\ PushedBy(eventsN') = AcceptedBytes(fed')
             /\ eventsS' = WholeS(fed').events
             /\ y_dataS' = WholeS(fed').y_data
             /\ PushedBy(eventsS') = AcceptedBytes(fed')]_vars

\* Paused after one frame was decoded: a second, complete frame has been read
\* since and waits in both buffers, not decoded.
C20_Witness ==
    /\ paused
    /\ fed = Frame(<<1>>) \o Frame(<<SYNC>>)
    /\ eventsN = <<PayloadEvent(<<1>>)>>
    /\ eventsS = eventsN
    /\ bufferN = Frame(<<SYNC>>)
    /\ bufferS = Frame(<<SYNC>>)
    /\ y_dataN = <<0, 0, 0, 1>>

====
